---- MODULE Spec2Model ----
(***************************************************************************)
(* Proof-of-work nonce search of native/powex_nif/src/lib.rs: the hasher,  *)
(* the difficulty predicate, the sequential search `compute`, the          *)
(* validator `valid`, and the partitioned multi-threaded search            *)
(* `compute_parallel` with its two shared atomics.                         *)
(*                                                                         *)
(* Scaling.  The nonce space u64 and the two abort thresholds cannot be    *)
(* enumerated, so U64_MAX, CHECK_EVERY and ATTEMPT_BUDGET are small        *)
(* stand-ins for 2^64 - 1, 1_000_000 and 100_000_000 (the budget stays a   *)
(* multiple of the check interval).  No arithmetic of                      *)
(* the code can wrap (thread_id * chunk_size <= u64::MAX and               *)
(* nonce >= start_nonce), so plain integers are exact.  The difficulty     *)
(* ceiling 64, the thread ceiling 64, the high-difficulty threshold 20     *)
(* and the 32-byte digest keep their real values.                          *)
(*                                                                         *)
(* SHA-256 is an uninterpreted deterministic function.  A payload is       *)
(* represented by what the search can observe of it: the set `low` of      *)
(* nonces whose digest starts with zero nibbles, and how many (`zeros`).   *)
(* Every other nonce hashes to a digest with no leading zero.              *)
(*                                                                         *)
(* Atomics.  All accesses are Ordering::Relaxed on two independent         *)
(* locations; workers read only `found`, and the caller reads both after   *)
(* joining every worker, so an interleaving of the individual loads and    *)
(* stores yields every final outcome the relaxed model allows.             *)
(***************************************************************************)
EXTENDS Integers, Sequences, FiniteSets, TLC

\* ---- bounds of the model ------------------------------------------------
U64_MAX == 11
CHECK_EVERY == 2
ATTEMPT_BUDGET == 2
MaxWorkers == 2
MaxHashLen == 4

\* ---- program constants --------------------------------------------------
MAX_DIFFICULTY == 64
MAX_THREADS == 64
HIGH_DIFFICULTY == 20
DIGEST_BYTES == 32

ERR_DIFFICULTY == "Difficulty too high (max 64)"
ERR_THREADS == "Invalid number of threads (1-64)"
ERR_ABORTED == "Difficulty too high, computation aborted"
ERR_NOT_FOUND == "No valid nonce found"

VARIABLES main, call, ret, seq_nonce, seq_hashed,
          found, result_nonce, threads, joined, first_setter

vars == <<main, call, ret, seq_nonce, seq_hashed,
          found, result_nonce, threads, joined, first_setter>>

\* ---- inputs ---------------------------------------------------------------
Nonces == 0..U64_MAX

ZeroClasses == {HIGH_DIFFICULTY + 1, 2 * DIGEST_BYTES}

LowSets == {{}} \cup {{a, b} : a \in Nonces, b \in Nonces}

Payloads == {[low |-> S, zeros |-> k] : S \in LowSets \ {{}}, k \in ZeroClasses}
            \cup {[low |-> {}, zeros |-> 0]}

Difficulties == {0, 1, HIGH_DIFFICULTY + 1, MAX_DIFFICULTY, MAX_DIFFICULTY + 1}

ThreadCounts == (0..MaxWorkers) \cup {MAX_THREADS + 1}

\* ---- Hasher ---------------------------------------------------------------
HEX_CHARS == <<"0", "1", "2", "3", "4", "5", "6", "7",
               "8", "9", "a", "b", "c", "d", "e", "f">>

\* hex::encode: two lowercase hex characters per byte, high nibble first.
hex_encode(bytes) ==
    [i \in 1..(2 * Len(bytes)) |->
        IF i % 2 = 1 THEN HEX_CHARS[(bytes[(i + 1) \div 2] \div 16) + 1]
                     ELSE HEX_CHARS[(bytes[i \div 2] % 16) + 1]]

\* The 32 digest bytes of (data, nonce): `zeros` leading zero nibbles at the
\* payload's low nonces, none elsewhere.
Sha256(data, nonce) ==
    LET k == IF nonce \in data.low THEN data.zeros ELSE 0
    IN  [i \in 1..DIGEST_BYTES |->
            IF 2 * i <= k THEN 0
            ELSE IF 2 * i - 1 = k THEN 15
            ELSE 255]

compute_hash(data, nonce) == hex_encode(Sha256(data, nonce))

\* ---- DifficultyPredicate --------------------------------------------------
\* hash.chars().take(required_zeros).all(|c| c == '0')
meets_difficulty(hash, difficulty) ==
    IF difficulty = 0 THEN TRUE
    ELSE LET taken == IF difficulty < Len(hash) THEN difficulty ELSE Len(hash)
         IN  \A i \in 1..taken : hash[i] = "0"

\* ---- Validator ------------------------------------------------------------
valid(data, nonce, difficulty) ==
    meets_difficulty(compute_hash(data, nonce), difficulty)

\* ---- return values --------------------------------------------------------
None == [tag |-> "none"]
Ok(v) == [tag |-> "ok", value |-> v]
Err(m) == [tag |-> "error", msg |-> m]

NoCall == [op |-> "none", data |-> [low |-> {}, zeros |-> 0],
           difficulty |-> 0, num_threads |-> 0, nonce |-> 0, hash |-> <<>>]

\* ---- argument checks ------------------------------------------------------
\* a ceiling test that is one off
difficulty_too_high_off_by_one(difficulty) == difficulty > MAX_DIFFICULTY + 1

difficulty_too_high(difficulty) == difficulty > MAX_DIFFICULTY

invalid_num_threads(num_threads) == num_threads = 0 \/ num_threads > MAX_THREADS

\* the periodic give-up test of both loops (lib.rs:50-52 with start = 0, 118-119)
check_point(nonce, difficulty) ==
    nonce > 0 /\ nonce % CHECK_EVERY = 0 /\ difficulty > HIGH_DIFFICULTY

\* a budget that is reached, not exceeded
over_budget_inclusive(nonce, start) == nonce - start >= ATTEMPT_BUDGET

\* a budget measured from nonce 0 instead of the scan's own start
over_budget_absolute(nonce, start) == nonce > ATTEMPT_BUDGET

over_budget(nonce, start) == nonce - start > ATTEMPT_BUDGET

\* ---- partitioning ---------------------------------------------------------
chunk_size(num_threads) == U64_MAX \div num_threads

start_nonce(thread_id, num_threads) == thread_id * chunk_size(num_threads)

\* an inclusive upper end: each range runs one nonce into the next
end_nonce_inclusive(thread_id, num_threads) ==
    IF thread_id = num_threads - 1 THEN U64_MAX
    ELSE (thread_id + 1) * chunk_size(num_threads) + 1

end_nonce(thread_id, num_threads) ==
    IF thread_id = num_threads - 1 THEN U64_MAX
    ELSE (thread_id + 1) * chunk_size(num_threads)

NoThreads == [t \in {} |-> 0]

Init ==
    /\ main = "idle"
    /\ call = NoCall
    /\ ret = None
    /\ seq_nonce = 0
    /\ seq_hashed = {}
    /\ found = FALSE
    /\ result_nonce = 0
    /\ threads = NoThreads
    /\ joined = 0
    /\ first_setter = -1

\* a scan that starts at nonce 1
Call_compute_from_one(data, difficulty) ==
    /\ main = "idle"
    /\ call' = [NoCall EXCEPT !.op = "compute", !.data = data,
                              !.difficulty = difficulty]
    /\ IF difficulty_too_high(difficulty)
       THEN /\ ret' = Err(ERR_DIFFICULTY)
            /\ main' = "done"
       ELSE /\ ret' = ret
            /\ main' = "compute_loop"
    /\ seq_nonce' = 1
    /\ UNCHANGED <<seq_hashed, found, result_nonce, threads, joined, first_setter>>

\* ---- compute (SequentialSearch) -------------------------------------------
\* entry of compute: the difficulty check, then the loop starts at nonce 0
Call_compute(data, difficulty) ==
    /\ main = "idle"
    /\ call' = [NoCall EXCEPT !.op = "compute", !.data = data,
                              !.difficulty = difficulty]
    /\ IF difficulty_too_high(difficulty)
       THEN /\ ret' = Err(ERR_DIFFICULTY)
            /\ main' = "done"
       ELSE /\ ret' = ret
            /\ main' = "compute_loop"
    /\ seq_nonce' = 0
    /\ UNCHANGED <<seq_hashed, found, result_nonce, threads, joined, first_setter>>

\* one iteration of `for nonce in 0..u64::MAX`, or the fall-through after it
compute_step ==
    /\ main = "compute_loop"
    /\ IF seq_nonce >= U64_MAX
       THEN /\ ret' = Err(ERR_NOT_FOUND)
            /\ main' = "done"
            /\ UNCHANGED <<seq_nonce, seq_hashed>>
       ELSE LET hash == compute_hash(call.data, seq_nonce)
            IN  /\ seq_hashed' = seq_hashed \cup {seq_nonce}
                /\ IF meets_difficulty(hash, call.difficulty)
                   THEN /\ ret' = Ok(seq_nonce)
                        /\ main' = "done"
                        /\ UNCHANGED seq_nonce
                   ELSE IF check_point(seq_nonce, call.difficulty)
                           /\ over_budget(seq_nonce, 0)
                   THEN /\ ret' = Err(ERR_ABORTED)
                        /\ main' = "done"
                        /\ UNCHANGED seq_nonce
                   ELSE /\ seq_nonce' = seq_nonce + 1
                        /\ UNCHANGED <<ret, main>>
    /\ UNCHANGED <<call, found, result_nonce, threads, joined, first_setter>>

\* what compute returns, as a function of its arguments: the loop of
\* lib.rs:43-58 unrolled from `nonce`
RECURSIVE compute_scan(_, _, _)
compute_scan(data, difficulty, nonce) ==
    IF nonce >= U64_MAX THEN Err(ERR_NOT_FOUND)
    ELSE IF meets_difficulty(compute_hash(data, nonce), difficulty)
    THEN Ok(nonce)
    ELSE IF check_point(nonce, difficulty) /\ over_budget(nonce, 0)
    THEN Err(ERR_ABORTED)
    ELSE compute_scan(data, difficulty, nonce + 1)

compute_result(data, difficulty) ==
    IF difficulty_too_high(difficulty) THEN Err(ERR_DIFFICULTY)
    ELSE compute_scan(data, difficulty, 0)

\* ---- valid? and get_hash --------------------------------------------------
Call_valid(data, nonce, difficulty) ==
    /\ main = "idle"
    /\ call' = [NoCall EXCEPT !.op = "valid", !.data = data, !.nonce = nonce,
                              !.difficulty = difficulty]
    /\ ret' = Ok(valid(data, nonce, difficulty))
    /\ main' = "done"
    /\ UNCHANGED <<seq_nonce, seq_hashed, found, result_nonce, threads, joined,
                   first_setter>>

Call_get_hash(data, nonce) ==
    /\ main = "idle"
    /\ call' = [NoCall EXCEPT !.op = "get_hash", !.data = data, !.nonce = nonce]
    /\ ret' = Ok(compute_hash(data, nonce))
    /\ main' = "done"
    /\ UNCHANGED <<seq_nonce, seq_hashed, found, result_nonce, threads, joined,
                   first_setter>>

\* ---- compute_parallel (ParallelSearch) ------------------------------------
\* entry of compute_parallel: both argument checks, then the two atomics
Call_compute_parallel(data, difficulty, num_threads) ==
    /\ main = "idle"
    /\ call' = [NoCall EXCEPT !.op = "compute_parallel", !.data = data,
                              !.difficulty = difficulty,
                              !.num_threads = num_threads]
    /\ IF difficulty_too_high(difficulty)
       THEN /\ ret' = Err(ERR_DIFFICULTY)
            /\ main' = "done"
       ELSE IF invalid_num_threads(num_threads)
       THEN /\ ret' = Err(ERR_THREADS)
            /\ main' = "done"
       ELSE /\ ret' = ret
            /\ main' = "spawn"
    /\ found' = FALSE
    /\ result_nonce' = 0
    /\ threads' = NoThreads
    /\ joined' = 0
    /\ UNCHANGED <<seq_nonce, seq_hashed, first_setter>>

NumSpawned == Cardinality(DOMAIN threads)

\* workers whose scan starts one nonce after the start of their range
Spawn_skip_first ==
    /\ main = "spawn"
    /\ LET thread_id == NumSpawned
           fresh == [pc |-> "poll",
                     start_nonce |-> start_nonce(thread_id, call.num_threads),
                     end_nonce |-> end_nonce(thread_id, call.num_threads),
                     nonce |-> start_nonce(thread_id, call.num_threads) + 1,
                     hashed |-> {},
                     exit |-> "running"]
       IN  /\ threads' = [t \in 0..thread_id |->
                            IF t < thread_id THEN threads[t] ELSE fresh]
           /\ main' = IF thread_id + 1 = call.num_threads THEN "join" ELSE "spawn"
    /\ UNCHANGED <<call, ret, seq_nonce, seq_hashed, found, result_nonce,
                   joined, first_setter>>

\* one iteration of `for thread_id in 0..num_threads`: thread::spawn + push
Spawn ==
    /\ main = "spawn"
    /\ LET thread_id == NumSpawned
           fresh == [pc |-> "poll",
                     start_nonce |-> start_nonce(thread_id, call.num_threads),
                     end_nonce |-> end_nonce(thread_id, call.num_threads),
                     nonce |-> start_nonce(thread_id, call.num_threads),
                     hashed |-> {},
                     exit |-> "running"]
       IN  /\ threads' = [t \in 0..thread_id |->
                            IF t < thread_id THEN threads[t] ELSE fresh]
           /\ main' = IF thread_id + 1 = call.num_threads THEN "join" ELSE "spawn"
    /\ UNCHANGED <<call, ret, seq_nonce, seq_hashed, found, result_nonce,
                   joined, first_setter>>

\* a loop head that tests only the range, never the flag
Poll_ignores_flag(t) ==
    /\ t \in DOMAIN threads
    /\ threads[t].pc = "poll"
    /\ threads' = [threads EXCEPT ![t] =
         IF threads[t].nonce >= threads[t].end_nonce
         THEN [@ EXCEPT !.pc = "done", !.exit = "exhausted"]
         ELSE [@ EXCEPT !.pc = "hash"]]
    /\ UNCHANGED <<main, call, ret, seq_nonce, seq_hashed, found, result_nonce,
                   joined, first_setter>>

\* loop head of a worker: range test, then found_clone.load(Relaxed)
Poll(t) ==
    /\ t \in DOMAIN threads
    /\ threads[t].pc = "poll"
    /\ threads' = [threads EXCEPT ![t] =
         IF threads[t].nonce >= threads[t].end_nonce
         THEN [@ EXCEPT !.pc = "done", !.exit = "exhausted"]
         ELSE IF found
         THEN [@ EXCEPT !.pc = "done", !.exit = "flag"]
         ELSE [@ EXCEPT !.pc = "hash"]]
    /\ UNCHANGED <<main, call, ret, seq_nonce, seq_hashed, found, result_nonce,
                   joined, first_setter>>

\* a worker that raises the flag when it gives up, to stop the others
Hash_abort_sets_flag(t) ==
    /\ t \in DOMAIN threads
    /\ threads[t].pc = "hash"
    /\ LET w == threads[t]
           hash == compute_hash(call.data, w.nonce)
           w1 == [w EXCEPT !.hashed = @ \cup {w.nonce}]
           gives_up == /\ ~meets_difficulty(hash, call.difficulty)
                       /\ check_point(w.nonce, call.difficulty)
                       /\ over_budget(w.nonce, w.start_nonce)
       IN  /\ threads' = [threads EXCEPT ![t] =
                IF meets_difficulty(hash, call.difficulty)
                THEN [w1 EXCEPT !.pc = "store_found"]
                ELSE IF gives_up
                THEN [w1 EXCEPT !.pc = "done", !.exit = "abort"]
                ELSE [w1 EXCEPT !.pc = "poll", !.nonce = @ + 1]]
           /\ found' = (found \/ gives_up)
    /\ UNCHANGED <<main, call, ret, seq_nonce, seq_hashed, result_nonce,
                   joined, first_setter>>

\* compute_hash + meets_difficulty + the periodic give-up test of a worker
Hash(t) ==
    /\ t \in DOMAIN threads
    /\ threads[t].pc = "hash"
    /\ LET w == threads[t]
           hash == compute_hash(call.data, w.nonce)
           w1 == [w EXCEPT !.hashed = @ \cup {w.nonce}]
       IN  threads' = [threads EXCEPT ![t] =
             IF meets_difficulty(hash, call.difficulty)
             THEN [w1 EXCEPT !.pc = "store_found"]
             ELSE IF check_point(w.nonce, call.difficulty)
                     /\ over_budget(w.nonce, w.start_nonce)
             THEN [w1 EXCEPT !.pc = "done", !.exit = "abort"]
             ELSE [w1 EXCEPT !.pc = "poll", !.nonce = @ + 1]]
    /\ UNCHANGED <<main, call, ret, seq_nonce, seq_hashed, found, result_nonce,
                   joined, first_setter>>

\* found_clone.store(true, Relaxed); first_setter remembers who changed it
StoreFound(t) ==
    /\ t \in DOMAIN threads
    /\ threads[t].pc = "store_found"
    /\ found' = TRUE
    /\ first_setter' = IF found THEN first_setter ELSE t
    /\ threads' = [threads EXCEPT ![t].pc = "store_result"]
    /\ UNCHANGED <<main, call, ret, seq_nonce, seq_hashed, result_nonce, joined>>

\* a worker that publishes the nonce after the one it tested
StoreResult_next_nonce(t) ==
    /\ t \in DOMAIN threads
    /\ threads[t].pc = "store_result"
    /\ result_nonce' = threads[t].nonce + 1
    /\ threads' = [threads EXCEPT ![t].pc = "done", ![t].exit = "found"]
    /\ UNCHANGED <<main, call, ret, seq_nonce, seq_hashed, found, joined,
                   first_setter>>

\* result_clone.store(nonce, Relaxed); break
StoreResult(t) ==
    /\ t \in DOMAIN threads
    /\ threads[t].pc = "store_result"
    /\ result_nonce' = threads[t].nonce
    /\ threads' = [threads EXCEPT ![t].pc = "done", ![t].exit = "found"]
    /\ UNCHANGED <<main, call, ret, seq_nonce, seq_hashed, found, joined,
                   first_setter>>

\* a caller that drops the handles instead of waiting on them
Join_no_wait ==
    /\ main = "join"
    /\ joined < call.num_threads
    /\ joined' = joined + 1
    /\ UNCHANGED <<main, call, ret, seq_nonce, seq_hashed, found, result_nonce,
                   threads, first_setter>>

\* a caller that waits for each worker to report a nonce
Join_awaits_report ==
    /\ main = "join"
    /\ joined < call.num_threads
    /\ threads[joined].exit = "found"
    /\ joined' = joined + 1
    /\ UNCHANGED <<main, call, ret, seq_nonce, seq_hashed, found, result_nonce,
                   threads, first_setter>>

\* handle.join().unwrap() for the next handle, in spawn order
Join ==
    /\ main = "join"
    /\ joined < call.num_threads
    /\ threads[joined].pc = "done"
    /\ joined' = joined + 1
    /\ UNCHANGED <<main, call, ret, seq_nonce, seq_hashed, found, result_nonce,
                   threads, first_setter>>

\* after the last join: found.load, then result_nonce.load or the error
Return_parallel ==
    /\ main = "join"
    /\ joined = call.num_threads
    /\ ret' = IF found THEN Ok(result_nonce) ELSE Err(ERR_NOT_FOUND)
    /\ main' = "done"
    /\ UNCHANGED <<call, seq_nonce, seq_hashed, found, result_nonce, threads,
                   joined, first_setter>>

Next ==
    \/ /\ main = "idle"
       /\ \E data \in Payloads, difficulty \in Difficulties :
             Call_compute(data, difficulty)
    \/ compute_step
    \/ /\ main = "idle"
       /\ \E data \in Payloads, nonce \in Nonces, difficulty \in Difficulties :
             Call_valid(data, nonce, difficulty)
    \/ /\ main = "idle"
       /\ \E data \in Payloads, nonce \in Nonces : Call_get_hash(data, nonce)
    \/ /\ main = "idle"
       /\ \E data \in Payloads, difficulty \in Difficulties,
             num_threads \in ThreadCounts :
             Call_compute_parallel(data, difficulty, num_threads)
    \/ Spawn
    \/ \E t \in DOMAIN threads : Poll(t)
    \/ \E t \in DOMAIN threads : Hash(t)
    \/ \E t \in DOMAIN threads : StoreFound(t)
    \/ \E t \in DOMAIN threads : StoreResult(t)
    \/ Join
    \/ Return_parallel

\* payloads with at most one nonce whose digest is all zeros
LivePayloads ==
    {p \in Payloads : Cardinality(p.low) <= 1 /\ p.zeros # HIGH_DIFFICULTY + 1}

\* compute_parallel alone: the call and the steps of its threads
NextParallel ==
    \/ /\ main = "idle"
       /\ \E data \in LivePayloads, difficulty \in Difficulties,
             num_threads \in ThreadCounts :
             Call_compute_parallel(data, difficulty, num_threads)
    \/ Spawn
    \/ \E t \in DOMAIN threads : Poll(t)
    \/ \E t \in DOMAIN threads : Hash(t)
    \/ \E t \in DOMAIN threads : StoreFound(t)
    \/ \E t \in DOMAIN threads : StoreResult(t)
    \/ Join
    \/ Return_parallel

\* the caller and the workers are OS threads and none of them blocks except in
\* join: a thread that can take a step eventually takes one
FairSpec == Init /\ [][NextParallel]_vars /\ WF_vars(NextParallel)

Spec == Init /\ [][Next]_vars

\* ---- the difficulty predicate as a pure function ---------------------------
HashStrings == UNION {[1..n -> {"0", "f"}] : n \in 0..MaxHashLen}

InitPredicate ==
    /\ main = "idle"
    /\ \E hash \in HashStrings, difficulty \in 0..(MaxHashLen + 1) :
          call = [NoCall EXCEPT !.op = "meets_difficulty", !.hash = hash,
                                !.difficulty = difficulty]
    /\ ret = None
    /\ seq_nonce = 0
    /\ seq_hashed = {}
    /\ found = FALSE
    /\ result_nonce = 0
    /\ threads = NoThreads
    /\ joined = 0
    /\ first_setter = -1

Apply_meets_difficulty ==
    /\ main = "idle"
    /\ call.op = "meets_difficulty"
    /\ ret' = Ok(meets_difficulty(call.hash, call.difficulty))
    /\ main' = "done"
    /\ UNCHANGED <<call, seq_nonce, seq_hashed, found, result_nonce, threads,
                   joined, first_setter>>

NextPredicate == Apply_meets_difficulty

SpecPredicate == InitPredicate /\ [][NextPredicate]_vars

\* ==== properties ============================================================
ComputeDone == main = "done" /\ call.op = "compute"

ParallelDone == main = "done" /\ call.op = "compute_parallel"

ParallelArgsOk ==
    /\ call.op = "compute_parallel"
    /\ call.difficulty <= MAX_DIFFICULTY
    /\ call.num_threads \in 1..MAX_THREADS

\* the nonces of `start_nonce..end_nonce` of a spawned worker
RangeOf(t) == threads[t].start_nonce..(threads[t].end_nonce - 1)

AllSpawned == ParallelArgsOk /\ NumSpawned = call.num_threads

\* C1: whenever compute_parallel returns Ok(n), in every interleaving of the
\* workers, the digest of (data, n) meets the difficulty: valid(data, n, d).
C1_ParallelFoundIsValid ==
    (ParallelDone /\ ret.tag = "ok")
        => valid(call.data, ret.value, call.difficulty)

\* C1 witness: a call returned Ok after two workers each found a nonce and each
\* wrote the result slot.
C1_Witness ==
    /\ ParallelDone
    /\ ret.tag = "ok"
    /\ \E t \in DOMAIN threads, u \in DOMAIN threads :
          t # u /\ threads[t].exit = "found" /\ threads[u].exit = "found"

\* C2: whenever compute returns Ok(n), valid(data, n, d) holds and no smaller
\* nonce is valid: the sequential search returns the smallest satisfying nonce.
C2_ComputeReturnsSmallest ==
    (ComputeDone /\ ret.tag = "ok")
        => /\ valid(call.data, ret.value, call.difficulty)
           /\ \A n \in 0..(ret.value - 1) :
                 ~valid(call.data, n, call.difficulty)

\* C2 witness: compute returned a nonce above 0 although a larger nonce is
\* valid too.
C2_Witness ==
    /\ ComputeDone
    /\ ret.tag = "ok"
    /\ ret.value > 0
    /\ \E n \in Nonces : n > ret.value /\ valid(call.data, n, call.difficulty)

\* C3 (as claimed): the nonce compute_parallel returns is the one found by the
\* worker that changed the flag from unset to set, and only that worker has
\* written the result slot.
C3_FirstSetterWins ==
    (ParallelDone /\ ret.tag = "ok")
        => /\ ret.value = threads[first_setter].nonce
           /\ \A t \in DOMAIN threads :
                 threads[t].exit = "found" => t = first_setter

\* C4 (as claimed): once all workers are spawned, every nonce from 0 up to and
\* including u64::MAX lies in the range of exactly one worker.
C4_RangesCoverNonceSpace ==
    AllSpawned
        => \A n \in Nonces :
              Cardinality({t \in DOMAIN threads : n \in RangeOf(t)}) = 1

\* C5: the worker ranges are contiguous (worker t+1 starts where worker t ends)
\* and pairwise disjoint, and no nonce is ever hashed by two workers.
C5_RangesContiguousDisjoint ==
    /\ \A t \in DOMAIN threads :
          (t + 1) \in DOMAIN threads
              => threads[t + 1].start_nonce = threads[t].end_nonce
    /\ \A t \in DOMAIN threads, u \in DOMAIN threads :
          t # u => /\ RangeOf(t) \cap RangeOf(u) = {}
                   /\ threads[t].hashed \cap threads[u].hashed = {}
    /\ \A t \in DOMAIN threads : threads[t].hashed \subseteq RangeOf(t)

\* C5 witness: two workers have each hashed nonces of their own range.
C5_Witness ==
    \E t \in DOMAIN threads, u \in DOMAIN threads :
        t # u /\ threads[t].hashed # {} /\ threads[u].hashed # {}

\* C6: a difficulty above 64 makes compute and compute_parallel return the
\* difficulty error, and a thread count of 0 or above 64 (difficulty <= 64)
\* makes compute_parallel return the thread-count error; in each case the call
\* has returned without hashing a nonce or spawning a worker.
C6_ArgumentErrors ==
    /\ (call.op \in {"compute", "compute_parallel"}
        /\ call.difficulty > MAX_DIFFICULTY)
          => /\ main = "done"
             /\ ret = Err(ERR_DIFFICULTY)
             /\ seq_hashed = {}
             /\ DOMAIN threads = {}
    /\ (call.op = "compute_parallel"
        /\ call.difficulty <= MAX_DIFFICULTY
        /\ (call.num_threads = 0 \/ call.num_threads > MAX_THREADS))
          => /\ main = "done"
             /\ ret = Err(ERR_THREADS)
             /\ DOMAIN threads = {}

\* C6 witness: compute_parallel was called with 65 threads and an accepted
\* difficulty.
C6_Witness ==
    /\ ParallelDone
    /\ call.difficulty <= MAX_DIFFICULTY
    /\ call.num_threads = MAX_THREADS + 1

\* C7: compute with difficulty 0 returns Ok(0) having hashed nonce 0 and no
\* other nonce.
C7_ComputeDifficultyZero ==
    (ComputeDone /\ call.difficulty = 0)
        => ret = Ok(0) /\ seq_hashed = {0}

\* C7 witness: compute returned for difficulty 0 on a payload whose digest at
\* nonce 0 has no leading zero.
C7_Witness ==
    /\ ComputeDone
    /\ call.difficulty = 0
    /\ compute_hash(call.data, 0)[1] # "0"

\* C8 (as claimed): compute_parallel with difficulty 0 returns Ok(0) in every
\* interleaving.
C8_ParallelDifficultyZeroReturnsZero ==
    (ParallelDone /\ ParallelArgsOk /\ call.difficulty = 0) => ret = Ok(0)

\* C8 (amended): compute_parallel with difficulty 0 returns Ok(n) where n is the
\* first nonce of some worker's range, n = t * (u64::MAX / num_threads) with
\* t < num_threads; with one worker that is Ok(0).
C8_ParallelDifficultyZeroReturnsRangeStart ==
    (ParallelDone /\ ParallelArgsOk /\ call.difficulty = 0)
        => /\ ret.tag = "ok"
           /\ \E t \in 0..(call.num_threads - 1) :
                 ret.value = t * (U64_MAX \div call.num_threads)

\* C8 witness: a difficulty-0 parallel call returned a nonce other than 0.
C8_Witness ==
    /\ ParallelDone
    /\ ParallelArgsOk
    /\ call.difficulty = 0
    /\ ret.tag = "ok"
    /\ ret.value # 0

\* C9 (as claimed): meets_difficulty(hash, d) is false whenever the hash has
\* fewer characters than d, all-'0' and empty hashes included.
C9_ShortHashFails ==
    (main = "done" /\ call.op = "meets_difficulty"
     /\ Len(call.hash) < call.difficulty)
        => ret = Ok(FALSE)

\* C10 (as claimed): compute_parallel returns "No valid nonce found" only if
\* every nonce of every worker's range was hashed and none met the difficulty.
C10_NotFoundMeansExhausted ==
    (ParallelDone /\ ret = Err(ERR_NOT_FOUND))
        => \A t \in DOMAIN threads :
              /\ threads[t].hashed = RangeOf(t)
              /\ \A n \in RangeOf(t) : ~valid(call.data, n, call.difficulty)

\* C11: compute_parallel returns only after every worker has terminated, and
\* what it returns is the recorded nonce if the flag is set and "No valid nonce
\* found" otherwise.
C11_ReturnAfterAllWorkers ==
    (ParallelDone /\ ParallelArgsOk)
        => /\ NumSpawned = call.num_threads
           /\ \A t \in DOMAIN threads : threads[t].pc = "done"
           /\ ret = IF found THEN Ok(result_nonce) ELSE Err(ERR_NOT_FOUND)

\* C11 witness: the call returned a nonce after one worker had stopped on the
\* flag and another had found the nonce.
C11_Witness ==
    /\ ParallelDone
    /\ ret.tag = "ok"
    /\ \E t \in DOMAIN threads, u \in DOMAIN threads :
          threads[t].exit = "flag" /\ threads[u].exit = "found"

\* C12: a worker starts a hash only from a flag poll that read the flag unset,
\* and the flag stays set; so once the flag is set, a worker that is not in the middle of a hash never
\* hashes again, and a worker that is finishes that one hash and no other.
C12_EarlyExit ==
    [][\A t \in DOMAIN threads :
          /\ found => found'
          /\ (threads[t].pc # "hash" /\ threads'[t].pc = "hash")
                => (threads[t].pc = "poll" /\ ~found)
          /\ threads'[t].hashed # threads[t].hashed
                => /\ threads[t].pc = "hash"
                   /\ threads'[t].pc # "hash"
                   /\ threads'[t].hashed = threads[t].hashed \cup {threads[t].nonce}
          /\ (found /\ threads[t].pc # "hash")
                => threads'[t].hashed = threads[t].hashed]_vars

\* C12 witness: the flag is set while another worker, whose poll read it unset,
\* has its one further hash still to compute.
C12_Witness ==
    /\ found
    /\ \E t \in DOMAIN threads, u \in DOMAIN threads :
          /\ t # u
          /\ threads[t].pc = "hash"
          /\ threads[u].pc \in {"store_result", "done"}
          /\ threads[u].exit \in {"running", "found"}
          /\ first_setter = u

\* the give-up test of lib.rs:50-52 and 118-119, at nonce n of a scan from start
AbortsAt(start, n) ==
    /\ n > 0
    /\ n % CHECK_EVERY = 0
    /\ call.difficulty > HIGH_DIFFICULTY
    /\ n - start > ATTEMPT_BUDGET

\* worker t hashes nonce n of its range if nothing stops it from outside
Reaches(t, n) ==
    /\ n \in RangeOf(t)
    /\ \A m \in threads[t].start_nonce..(n - 1) :
          /\ ~valid(call.data, m, call.difficulty)
          /\ ~AbortsAt(threads[t].start_nonce, m)

HasReachableSolution(t) ==
    \E n \in RangeOf(t) : valid(call.data, n, call.difficulty) /\ Reaches(t, n)

\* C13: compute returns the aborted error only for a difficulty above 20 with
\* no valid nonce in [0, budget]; it then stopped at the first nonce that is a
\* positive multiple of the check interval and exceeds the budget, having hashed
\* exactly the nonces up to it; at difficulty <= 20 it never returns that error.
C13_SequentialAbort ==
    /\ (ComputeDone /\ ret = Err(ERR_ABORTED))
          => /\ call.difficulty > HIGH_DIFFICULTY
             /\ \A n \in 0..ATTEMPT_BUDGET :
                   ~valid(call.data, n, call.difficulty)
             /\ seq_nonce % CHECK_EVERY = 0
             /\ seq_nonce > ATTEMPT_BUDGET
             /\ \A m \in 1..(seq_nonce - 1) :
                   ~(m % CHECK_EVERY = 0 /\ m > ATTEMPT_BUDGET)
             /\ seq_hashed = 0..seq_nonce
    /\ (call.op = "compute" /\ call.difficulty <= HIGH_DIFFICULTY)
          => ret # Err(ERR_ABORTED)

\* C13 witness: compute aborted although a nonce after the abort point is valid.
C13_Witness ==
    /\ ComputeDone
    /\ ret = Err(ERR_ABORTED)
    /\ \E n \in Nonces :
          n > seq_nonce /\ valid(call.data, n, call.difficulty)

\* C14: the step in which a worker gives up changes neither the flag, nor the
\* result slot, nor any other worker; and a call in which a worker gave up
\* still returns Ok when a sibling's range holds a valid nonce that the sibling
\* reaches before its own give-up point.
C14_AbortLeavesSiblings ==
    /\ []((ParallelDone
           /\ \E t \in DOMAIN threads, u \in DOMAIN threads :
                 t # u /\ threads[t].exit = "abort" /\ HasReachableSolution(u))
            => ret.tag = "ok")
    /\ [][\A t \in DOMAIN threads :
             (threads[t].exit # "abort" /\ threads'[t].exit = "abort")
                => /\ found' = found
                   /\ result_nonce' = result_nonce
                   /\ \A u \in DOMAIN threads \ {t} : threads'[u] = threads[u]]_vars

\* C14 witness: a call returned a nonce found by one worker after another
\* worker had given up.
C14_Witness ==
    /\ ParallelDone
    /\ ret.tag = "ok"
    /\ \E t \in DOMAIN threads, u \in DOMAIN threads :
          threads[t].exit = "abort" /\ threads[u].exit = "found"

\* C15: a worker that gave up did so at a difficulty above 20 after hashing
\* more than the budget of nonces, all consecutive from its own start; at a
\* difficulty above 20 no worker hashes more than budget + interval + 1 nonces;
\* at difficulty <= 20 no worker gives up.
C15_WorkerBudget ==
    call.op = "compute_parallel"
        => \A t \in DOMAIN threads :
              /\ threads[t].exit = "abort"
                    => /\ call.difficulty > HIGH_DIFFICULTY
                       /\ Cardinality(threads[t].hashed) > ATTEMPT_BUDGET
                       /\ threads[t].hashed
                             = threads[t].start_nonce..threads[t].nonce
              /\ call.difficulty > HIGH_DIFFICULTY
                    => Cardinality(threads[t].hashed)
                          <= ATTEMPT_BUDGET + CHECK_EVERY + 1
              /\ call.difficulty <= HIGH_DIFFICULTY
                    => threads[t].exit # "abort"

\* C15 witness: a worker whose start nonce is no multiple of the check interval
\* gave up.
C15_Witness ==
    \E t \in DOMAIN threads :
        /\ threads[t].exit = "abort"
        /\ threads[t].start_nonce % CHECK_EVERY # 0

\* C16: the flag is unset until a worker sets it, it only ever changes from
\* unset to set in the store of a worker that has just hashed a nonce meeting
\* the difficulty, and once set it stays set.
C16_FlagMonotonic ==
    /\ []((\A t \in DOMAIN threads : threads[t].pc \in {"poll", "hash"}) => ~found)
    /\ [][/\ found => found'
          /\ (~found /\ found')
                => \E t \in DOMAIN threads :
                      /\ threads[t].pc = "store_found"
                      /\ threads'[t].pc = "store_result"
                      /\ threads[t].nonce \in threads[t].hashed
                      /\ valid(call.data, threads[t].nonce, call.difficulty)]_vars

\* C16 witness: the flag is set and a worker that polled it afterwards has
\* stopped on it.
C16_Witness ==
    /\ found
    /\ first_setter >= 0
    /\ \E t \in DOMAIN threads : threads[t].exit = "flag"

\* C17: under fair scheduling every compute_parallel call with valid arguments
\* returns: all its workers get spawned and terminate, every join completes,
\* and the caller never stays blocked in a join.
C17_ParallelReturns ==
    /\ ParallelArgsOk ~> (ParallelDone /\ \A t \in DOMAIN threads : threads[t].pc = "done")
    /\ (main = "join") ~> (main = "done")

\* C17 witness: a call returned after two of its workers ran to the end of
\* their ranges without ever reporting a nonce.
C17_Witness ==
    /\ ParallelDone
    /\ ParallelArgsOk
    /\ joined = call.num_threads
    /\ ret = Err(ERR_NOT_FOUND)
    /\ \E t \in DOMAIN threads, u \in DOMAIN threads :
          t # u /\ threads[t].exit = "exhausted" /\ threads[u].exit = "exhausted"

\* C18: whether compute_parallel returns Ok or "No valid nonce found" is fixed
\* by its arguments, whatever the interleaving: it returns Ok exactly when some
\* worker's range holds a valid nonce that the worker reaches before giving up.
C18_OutcomeKindIsDetermined ==
    (ParallelDone /\ ParallelArgsOk)
        => /\ ret.tag = "ok" <=> \E t \in DOMAIN threads : HasReachableSolution(t)
           /\ ret.tag # "ok" => ret = Err(ERR_NOT_FOUND)

\* C18 witness: the call returned "No valid nonce found" although a worker's
\* range holds a valid nonce, one that lies after the worker's give-up point.
C18_Witness ==
    /\ ParallelDone
    /\ ParallelArgsOk
    /\ ret = Err(ERR_NOT_FOUND)
    /\ \E t \in DOMAIN threads : \E n \in RangeOf(t) :
          valid(call.data, n, call.difficulty)

\* C19: a nonce returned by compute_parallel is valid and is the smallest valid
\* nonce of the worker range it lies in.
C19_SmallestInOwnRange ==
    (ParallelDone /\ ret.tag = "ok")
        => \E t \in DOMAIN threads :
              /\ ret.value \in RangeOf(t)
              /\ valid(call.data, ret.value, call.difficulty)
              /\ \A m \in threads[t].start_nonce..(ret.value - 1) :
                    ~valid(call.data, m, call.difficulty)

\* C19 witness: at a difficulty above 0 the call returned a nonce although a
\* smaller nonce, in an earlier worker's range, is valid as well.
C19_Witness ==
    /\ ParallelDone
    /\ call.difficulty > 0
    /\ ret.tag = "ok"
    /\ \E m \in 0..(ret.value - 1) : valid(call.data, m, call.difficulty)

\* C20: compute returns compute_result of its arguments, and compute_parallel
\* with one worker returns the same Ok(n) when that is Ok(n) and "No valid nonce
\* found" when compute fails (aborted or not found).
C20_SingleWorkerAgreesWithCompute ==
    /\ ComputeDone => ret = compute_result(call.data, call.difficulty)
    /\ (ParallelDone /\ ParallelArgsOk /\ call.num_threads = 1)
          => LET seq == compute_result(call.data, call.difficulty)
             IN  IF seq.tag = "ok" THEN ret = seq ELSE ret = Err(ERR_NOT_FOUND)

\* C20 witness: a one-worker call returned "No valid nonce found" on arguments
\* for which compute aborts.
C20_Witness ==
    /\ ParallelDone
    /\ ParallelArgsOk
    /\ call.num_threads = 1
    /\ ret = Err(ERR_NOT_FOUND)
    /\ compute_result(call.data, call.difficulty) = Err(ERR_ABORTED)
====
